---- MODULE Spec2Model ----
(***************************************************************************)
(* A model of PyGdbRemoteClient: the packet codec of utils.py and the      *)
(* connection object GdbRemoteClientBase of client_base.py, together with  *)
(* the socket and the clock it talks to.                                   *)
(*                                                                         *)
(* Bytes are their integer codes, byte strings are sequences of codes.     *)
(* Time is counted in ticks; one second of the program is TicksPerUnit     *)
(* ticks, so that a remaining time strictly between 0 and 1 second exists. *)
(***************************************************************************)
EXTENDS Integers, Sequences, FiniteSets, TLC

\* ------------------------------------------------------------ bytes
DOLLAR == 36
HASH == 35
PLUS == 43
MINUS == 45
STAR == 42
RBRACE == 125
CTRL_C == 3
DIGIT3 == 48 + 3

\* bytes are 0..255; chr(x).encode("ascii") fails from 128 on
AsciiLimit == 128
ByteMod == 256

\* ------------------------------------------------------------ scaled program constants
\* one second, in ticks
TicksPerUnit == 2
\* DEFALUT_RECV_TIMEOUT (5.0 s in the source), in ticks
DEFALUT_RECV_TIMEOUT == 3
\* RECV_BLOCK_SIZE (1024 in the source)
RECV_BLOCK_SIZE == 3
\* MAX_RECV_PACKET (128 * 1024 in the source)
MAX_RECV_PACKET == 5

\* ------------------------------------------------------------ bounds of the model
\* the clock is followed for MaxElapsed ticks after a receive timeout was armed
MaxElapsed == 5
\* sockets one client object creates
MaxSockets == 2
\* the transport read counter saturates here
MaxReads == 2

Min(a, b) == IF a < b THEN a ELSE b
Max(a, b) == IF a > b THEN a ELSE b

\* Python's s[i:j] on a 1-indexed sequence; i, j are Python offsets, negative
\* ones count from the end, both are clamped to the string.
PySlice(s, i, j) ==
    LET n  == Len(s)
        lo == IF i < 0 THEN Max(n + i, 0) ELSE Min(i, n)
        hi == IF j < 0 THEN Max(n + j, 0) ELSE Min(j, n)
    IN  IF lo >= hi THEN <<>> ELSE SubSeq(s, lo + 1, hi)

\* s[i:]
PyFrom(s, i) == PySlice(s, i, Len(s))

Contains(s, b) == \E k \in 1..Len(s) : s[k] = b

RECURSIVE SumSeq(_)
SumSeq(s) == IF s = <<>> THEN 0 ELSE Head(s) + SumSeq(Tail(s))

\* ------------------------------------------------------------ utils.py
\* A codec function that can raise returns [err, val]: err = "" when it returns val.
Ok(v) == [err |-> "", val |-> v]
Raise(e) == [err |-> e, val |-> <<>>]

\* c ^ 0x20
Xor20(c) == IF (c \div 32) % 2 = 1 THEN c - 32 ELSE c + 32

\* mutant: no byte is escaped
needs_escape_never(c) == FALSE

_needs_escape(c) == c \in {RBRACE, DOLLAR, HASH}

_escape_byte(c) ==
    IF Xor20(c) >= AsciiLimit THEN Raise("UnicodeEncodeError") ELSE Ok(<<Xor20(c)>>)

_unescape_byte(c) == _escape_byte(c)

Repeat(b, n) == [k \in 1..n |-> b]

_expand_run_length_sequence(seq) ==
    LET orig_byte == seq[1]
        repetition_byte == seq[3]
    IN  IF repetition_byte \in {HASH, DOLLAR}
        THEN Raise("PacketFormatError_rle_special")
        ELSE IF ~(32 <= repetition_byte /\ repetition_byte <= 126)
        THEN Raise("PacketFormatError_rle_range")
        ELSE Ok(Repeat(orig_byte, repetition_byte - 28))

RECURSIVE decode_loop(_, _, _)
\* the while loop of decode_packet_data; pos is the Python offset
decode_loop(data, pos, result) ==
    IF ~(pos < Len(data)) THEN Ok(result)
    ELSE LET c == PySlice(data, pos, pos + 3) IN
         IF PySlice(c, 0, 1) = <<RBRACE>>
         THEN IF PySlice(c, 1, 2) = <<>>
              THEN Raise("PacketFormatError_escape_missing")
              ELSE LET u == _unescape_byte(c[2]) IN
                   IF u.err # "" THEN u
                   ELSE decode_loop(data, pos + 2, result \o u.val)
         ELSE IF PySlice(c, 1, 2) = <<STAR>>
         THEN IF Len(c) < 3
              THEN Raise("PacketFormatError_rle_missing")
              ELSE LET e == _expand_run_length_sequence(c) IN
                   IF e.err # "" THEN e
                   ELSE decode_loop(data, pos + 3, result \o e.val)
         ELSE decode_loop(data, pos + 1, result \o PySlice(c, 0, 1))

decode_packet_data(data) == decode_loop(data, 0, <<>>)

RECURSIVE encode_packet_data(_)
encode_packet_data(data) ==
    IF data = <<>> THEN <<>>
    ELSE LET c == Head(data) IN
         (IF _needs_escape(c) THEN <<RBRACE>> \o _escape_byte(c).val ELSE <<c>>)
             \o encode_packet_data(Tail(data))

\* "{:02x}": one lowercase hex digit
HexDigit(n) == IF n < 10 THEN 48 + n ELSE 87 + n

\* mutant: the sum is not reduced mod 256
compute_checksum_unreduced(packet_data) ==
    LET checksum_val == SumSeq(packet_data)
    IN  <<HexDigit(checksum_val \div 16), HexDigit(checksum_val % 16)>>

compute_checksum(packet_data) ==
    LET checksum_val == SumSeq(packet_data) % ByteMod
    IN  <<HexDigit(checksum_val \div 16), HexDigit(checksum_val % 16)>>

\* string.hexdigits: 0-9 a-f A-F
is_hex_char(c) == c \in (48..57) \cup (97..102) \cup (65..70)

\* mutant: only the length of the checksum is looked at
check_checksum_syntax_length(checksum) == Len(checksum) = 2

_check_checksum_syntax(checksum) ==
    IF Len(checksum) # 2 THEN FALSE
    ELSE \A k \in 1..Len(checksum) : is_hex_char(checksum[k])

\* custom_checksum is [given, val]; given = FALSE is Python's None
NoChecksum == [given |-> FALSE, val |-> <<>>]
Custom(c) == [given |-> TRUE, val |-> c]

\* mutant: the custom checksum is used as it comes
create_packet_unchecked(packet_data, custom_checksum) ==
    LET packet_data_encoded == encode_packet_data(packet_data)
        checksum == IF custom_checksum.given
                    THEN custom_checksum.val
                    ELSE compute_checksum(packet_data_encoded)
    IN  Ok(<<DOLLAR>> \o packet_data_encoded \o <<HASH>> \o checksum)

create_packet(packet_data, custom_checksum) ==
    IF custom_checksum.given /\ ~_check_checksum_syntax(custom_checksum.val)
    THEN Raise("ValueError_checksum")
    ELSE LET packet_data_encoded == encode_packet_data(packet_data)
             checksum == IF custom_checksum.given
                         THEN custom_checksum.val
                         ELSE compute_checksum(packet_data_encoded)
         IN  Ok(<<DOLLAR>> \o packet_data_encoded \o <<HASH>> \o checksum)

\* mutant: the "#" is left in the packet data
split_packet_keeps_hash(p) ==
    [first_char  |-> PySlice(p, 0, 1),
     packet_data |-> PySlice(p, 1, -2),
     hash_char   |-> PySlice(p, -3, -2),
     checksum    |-> PyFrom(p, -2)]

split_packet(p) ==
    [first_char  |-> PySlice(p, 0, 1),
     packet_data |-> PySlice(p, 1, -3),
     hash_char   |-> PySlice(p, -3, -2),
     checksum    |-> PyFrom(p, -2)]

\* "ok", or the PacketFormatError validate_packet raises
validate_packet(p) ==
    LET s == split_packet(p) IN
    IF Len(p) < 4 THEN "PacketFormatError_short"
    ELSE IF s.first_char # <<DOLLAR>> THEN "PacketFormatError_first"
    ELSE IF s.hash_char # <<HASH>> THEN "PacketFormatError_hash"
    ELSE IF Contains(s.packet_data, DOLLAR) THEN "PacketFormatError_dollar_in_data"
    ELSE IF Contains(s.packet_data, HASH) THEN "PacketFormatError_hash_in_data"
    ELSE IF ~_check_checksum_syntax(s.checksum) THEN "PacketFormatError_checksum_syntax"
    ELSE IF s.checksum # compute_checksum(s.packet_data) THEN "PacketFormatError_checksum"
    ELSE "ok"

\* ------------------------------------------------------------ the peer's byte streams
\* bytes the peer may send after the head of its stream
TrailBytes == {DOLLAR, HASH, PLUS, MINUS, DIGIT3}

\* what may precede a packet: nothing, an ACK, a NACK, a stray byte
Leads == {<<>>, <<PLUS>>, <<MINUS>>, <<DIGIT3>>}

\* "$3#33": a packet validate_packet accepts
PacketGood == <<DOLLAR, DIGIT3, HASH, DIGIT3, DIGIT3>>
\* "$$#24": framed, checksum of its payload correct, "$" in the payload
PacketDollar == <<DOLLAR, DOLLAR, HASH, 50, 52>>
\* "$#33": framed, wrong checksum
PacketBadSum == <<DOLLAR, HASH, DIGIT3, DIGIT3>>
\* "$33333": a packet body that never ends
PacketEndless == <<DOLLAR, DIGIT3, DIGIT3, DIGIT3, DIGIT3, DIGIT3>>
\* "$3333#cc": a packet validate_packet accepts, longer than MAX_RECV_PACKET
PacketLong == <<DOLLAR, DIGIT3, DIGIT3, DIGIT3, DIGIT3, HASH, 99, 99>>

\* "$333#99": a valid packet whose "#" is byte MAX_RECV_PACKET
PacketFull == <<DOLLAR, DIGIT3, DIGIT3, DIGIT3, HASH, 57, 57>>

\* "$}#7d": a packet validate_packet accepts whose payload ends in the escape marker
PacketBadEscape == <<DOLLAR, RBRACE, HASH, 55, 100>>
\* "$3*#5d": a packet validate_packet accepts whose run-length sequence has no count
PacketBadRunLength == <<DOLLAR, DIGIT3, STAR, HASH, 53, 100>>

Heads ==
    {<<>>, PacketGood, PacketDollar, PacketBadSum, PacketEndless, PacketLong, PacketFull,
     PacketBadEscape, PacketBadRunLength}

\* what may follow: nothing, or one more byte
Trails == {<<>>} \cup {<<b>> : b \in TrailBytes}

\* Every stream a peer sends over one connection: a good packet or nothing with
\* what follows it, a good packet with what precedes it, the other heads.
Streams ==
    {h \o t : h \in {<<>>, PacketGood}, t \in Trails}
        \cup {l \o PacketGood : l \in Leads}
        \cup Heads \cup {PacketEndless \o <<DIGIT3>>}

\* arguments of send_packet
Payloads == {<<DOLLAR>>}
Checksums == {NoChecksum, Custom(<<DIGIT3>>)}
\* arguments of set_recv_timeout, in ticks (asserted > 0)
Timeouts == {1, DEFALUT_RECV_TIMEOUT}

\* ------------------------------------------------------------ state
VARIABLES
    _socket,            \* self._socket: 0 is None, k > 0 the k-th socket object created
    _recv_buf,          \* self._recv_buf
    _no_ack_mode,       \* self._no_ack_mode
    _recv_timeout,      \* self._recv_timeout, in ticks
    time_elapsed,       \* time.time() - self._recv_time_start in ticks while a call
                        \* is in progress, 0 when none is
    nsock,              \* socket objects created so far (socket.socket() calls)
    sock_up,            \* the current socket object's TCP connection is established
    wire,               \* bytes of the peer's stream that socket.recv has not returned yet
    eof,                \* the peer has closed: socket.recv returns b"" once wire is empty
    pc,                 \* where the call in progress waits for the transport, or "idle"
    packet,             \* recv_packet's local variable packet
    frame,              \* the call in progress: the method called and its arguments
    ret,                \* the outcome of the latest call: what it returned or raised
    sent,               \* the socket.send calls of the latest call, in order
    reads,              \* the socket.recv calls of the latest call (saturating)
    start,              \* _recv_buf and wire when the latest call was made
    console_text        \* get_stop_reply's console_text; empty outside of it

vars == <<_socket, _recv_buf, _no_ack_mode, _recv_timeout, time_elapsed, nsock,
          sock_up, wire, eof, pc, packet, frame, ret, sent, reads, start, console_text>>

\* A call: the method and its boolean argument (validate_and_ack of recv_packet,
\* check_ack of send_packet; FALSE for a method that has none).
NoFrame == [op |-> "none", arg |-> FALSE]
Frame(op, arg) == [op |-> op, arg |-> arg]

\* The outcome of call fr: status is "ok" or the exception raised ("pending" while
\* the call is in progress), value the bytes returned (or the bytes an error is
\* about), aux the ticks a receiving call took (for disconnect: 1 when shutdown
\* raised, plus 2 when close raised).
Ret(fr, status, value, aux) ==
    [op |-> fr.op, arg |-> fr.arg, status |-> status, value |-> value, aux |-> aux]
Pending(fr) == Ret(fr, "pending", <<>>, 0)

Init ==
    /\ _socket = 0
    /\ _recv_buf = <<>>
    /\ _no_ack_mode = FALSE
    /\ _recv_timeout = DEFALUT_RECV_TIMEOUT
    /\ time_elapsed = 0
    /\ nsock = 0
    /\ sock_up = FALSE
    /\ wire = <<>>
    /\ eof = FALSE
    /\ pc = "idle"
    /\ packet = <<>>
    /\ frame = NoFrame
    /\ ret = Ret(Frame("__init__", FALSE), "ok", <<>>, 0)
    /\ sent = <<>>
    /\ reads = 0
    /\ console_text = <<>>
    /\ start = [buf |-> <<>>, wire |-> <<>>]

\* ------------------------------------------------------------ the receive path
\* The value _get_recv_time_left returns at time t; AssertFail when its last
\* assert fails (time_left is exactly 0).
AssertFail == -1

\* mutant: a remaining time below 1 unit is rounded up to 2 units
get_recv_time_left_two_units ==
    LET time_left == _recv_timeout - time_elapsed
    IN  IF time_left < 0 THEN 0
        ELSE IF 0 < time_left /\ time_left < TicksPerUnit THEN 2 * TicksPerUnit
        ELSE IF time_left >= TicksPerUnit THEN time_left
        ELSE AssertFail

\* mutant: every read gets the whole timeout anew
get_recv_time_left_rearmed == _recv_timeout

_get_recv_time_left ==
    LET time_left == _recv_timeout - time_elapsed
    IN  IF time_left < 0 THEN 0
        ELSE IF 0 < time_left /\ time_left < TicksPerUnit THEN TicksPerUnit
        ELSE IF time_left >= TicksPerUnit THEN time_left
        ELSE AssertFail

\* mutant: the checksum read asks for one byte
Requested_one(stage) == 1

\* how many bytes the _recv_bytes call at a waiting point asks for
Requested(stage) == IF stage = "cksum" THEN 2 ELSE 1

\* What a run of the code yields: st = "block" when _recv_bytes needs the
\* transport at `stage`, else how the reads ended; buf is _recv_buf then.
Outcome(st, stage, buf, pkt) == [st |-> st, stage |-> stage, buf |-> buf, packet |-> pkt]

\* mutant: the unexpected byte is not pushed back
check_ack_run_no_unrecv(buf) ==
    IF Len(buf) < Requested("ack") THEN Outcome("block", "ack", buf, <<>>)
    ELSE Outcome(IF Head(buf) = PLUS THEN "ok"
                 ELSE IF Head(buf) = MINUS THEN "ProtocolError_nack"
                 ELSE "ProtocolError_unexpected_ack",
                 "ack", Tail(buf), <<Head(buf)>>)

\* mutant: the unexpected byte is put back behind the buffered bytes
check_ack_run_unrecv_behind(buf) ==
    IF Len(buf) < Requested("ack") THEN Outcome("block", "ack", buf, <<>>)
    ELSE LET c == Head(buf)
             rest == Tail(buf)
         IN  IF c = PLUS THEN Outcome("ok", "ack", rest, <<c>>)
             ELSE IF c = MINUS THEN Outcome("ProtocolError_nack", "ack", rest, <<c>>)
             ELSE Outcome("ProtocolError_unexpected_ack", "ack", rest \o <<c>>, <<c>>)

\* check_ack after _start_recv_timeout, on a buffer
check_ack_run(buf) ==
    IF Len(buf) < Requested("ack") THEN Outcome("block", "ack", buf, <<>>)
    ELSE LET c == Head(buf)
             rest == Tail(buf)
         IN  IF c = PLUS THEN Outcome("ok", "ack", rest, <<c>>)
             ELSE IF c = MINUS THEN Outcome("ProtocolError_nack", "ack", rest, <<c>>)
             ELSE Outcome("ProtocolError_unexpected_ack", "ack", <<c>> \o rest, <<c>>)

\* line 176: the safety limit is reached
\* mutant: the limit is looked at one byte late
excessive_late(p) == Len(p) > MAX_RECV_PACKET + 1

\* line 176
excessive(p) == Len(p) > MAX_RECV_PACKET

RECURSIVE recv_packet_run(_, _, _)
\* mutant: bytes before the "$" are skipped
recv_packet_run_resync(stage, buf, pkt) ==
    IF Len(buf) < Requested(stage) THEN Outcome("block", stage, buf, pkt)
    ELSE IF stage = "start"
    THEN IF Head(buf) # DOLLAR
         THEN recv_packet_run("start", Tail(buf), pkt)
         ELSE recv_packet_run("body", Tail(buf), pkt \o <<Head(buf)>>)
    ELSE IF stage = "body"
    THEN LET p == pkt \o <<Head(buf)>> IN
         IF excessive(p)
         THEN Outcome("ProtocolError_excessive", stage, Tail(buf), p)
         ELSE IF Head(buf) = HASH
         THEN recv_packet_run("cksum", Tail(buf), p)
         ELSE recv_packet_run("body", Tail(buf), p)
    ELSE Outcome("complete", stage, PyFrom(buf, 2), pkt \o PySlice(buf, 0, 2))

\* recv_packet's reads from `stage` on, on a buffer, up to the complete packet
recv_packet_run(stage, buf, pkt) ==
    IF Len(buf) < Requested(stage) THEN Outcome("block", stage, buf, pkt)
    ELSE IF stage = "start"
    THEN IF Head(buf) # DOLLAR
         THEN Outcome("ProtocolError_start", stage, Tail(buf), <<Head(buf)>>)
         ELSE recv_packet_run("body", Tail(buf), pkt \o <<Head(buf)>>)
    ELSE IF stage = "body"
    THEN LET p == pkt \o <<Head(buf)>> IN
         IF excessive(p)
         THEN Outcome("ProtocolError_excessive", stage, Tail(buf), p)
         ELSE IF Head(buf) = HASH
         THEN recv_packet_run("cksum", Tail(buf), p)
         ELSE recv_packet_run("body", Tail(buf), p)
    ELSE Outcome("complete", stage, PyFrom(buf, 2), pkt \o PySlice(buf, 0, 2))

Run(stage, buf, pkt) ==
    IF stage = "ack" THEN check_ack_run(buf) ELSE recv_packet_run(stage, buf, pkt)

\* socket.send(data) on the current socket: the writes after it, or OSError
Final(status, value, snt) == [status |-> status, value |-> value, sent |-> snt]

\* mutant: the data is written a second time
socket_send_twice(data, snt) ==
    IF sock_up THEN Final("ok", <<>>, Append(Append(snt, data), data))
    ELSE Final("OSError", <<>>, snt)

socket_send(data, snt) ==
    IF sock_up THEN Final("ok", <<>>, Append(snt, data)) ELSE Final("OSError", <<>>, snt)

\* mutant: the packet is acknowledged before it is validated
recv_packet_end_ack_first(p, validate_and_ack, snt) ==
    IF ~validate_and_ack THEN Final("ok", p, snt)
    ELSE LET a == IF ~_no_ack_mode THEN socket_send(<<PLUS>>, snt) ELSE Final("ok", p, snt) IN
         IF a.status # "ok" THEN a
         ELSE IF validate_packet(p) # "ok" THEN Final(validate_packet(p), p, a.sent)
         ELSE Final("ok", p, a.sent)

\* recv_packet from the complete packet on: validate, acknowledge, return
recv_packet_end(p, validate_and_ack, snt) ==
    IF ~validate_and_ack THEN Final("ok", p, snt)
    ELSE IF validate_packet(p) # "ok" THEN Final(validate_packet(p), p, snt)
    ELSE IF ~_no_ack_mode
    THEN LET a == socket_send(<<PLUS>>, snt) IN
         IF a.status # "ok" THEN a ELSE Final("ok", p, a.sent)
    ELSE Final("ok", p, snt)

\* mutant: a packet whose data cannot be decoded is not acknowledged
recv_and_decode_end_unacked(r) ==
    IF r.status # "ok" THEN r
    ELSE LET d == decode_packet_data(split_packet(r.value).packet_data) IN
         IF d.err # "" THEN Final(d.err, r.value, <<>>)
         ELSE Final("ok", d.val, r.sent)

\* recv_and_decode_packet_data from the return of recv_packet on
recv_and_decode_end(r) ==
    IF r.status # "ok" THEN r
    ELSE LET d == decode_packet_data(split_packet(r.value).packet_data) IN
         IF d.err # "" THEN Final(d.err, r.value, r.sent)
         ELSE Final("ok", d.val, r.sent)

\* how the call of frame fr ends once its reads ended with outcome o
Finish(o, fr, snt) ==
    IF o.st = "ok" THEN Final("ok", <<>>, snt)
    ELSE IF o.st # "complete" THEN Final(o.st, o.packet, snt)
    ELSE LET r == recv_packet_end(o.packet, fr.arg, snt) IN
         IF fr.op = "recv_and_decode_packet_data" THEN recv_and_decode_end(r) ELSE r

\* The call of frame fr goes on after a run with outcome o: it waits for the
\* transport, or it ends and the client is idle again.
\* t is the time since the call armed its timeout; when the call ends the clock
\* is no longer read, and ret.aux keeps t.
Advance(o, fr, snt, t) ==
    /\ _recv_buf' = o.buf
    /\ console_text' = <<>>
    /\ IF o.st = "block"
       THEN /\ pc' = o.stage
            /\ packet' = o.packet
            /\ frame' = fr
            /\ sent' = snt
            /\ time_elapsed' = t
            /\ ret' = Pending(fr)
       ELSE LET f == Finish(o, fr, snt) IN
            /\ pc' = "idle"
            /\ packet' = <<>>
            /\ frame' = NoFrame
            /\ sent' = f.sent
            /\ time_elapsed' = 0
            /\ ret' = Ret(fr, f.status, f.value, t)

\* mutant: the bytes consumed for the partial packet are put back
Abort_restoring(e, t) ==
    /\ pc' = "idle"
    /\ packet' = <<>>
    /\ frame' = NoFrame
    /\ time_elapsed' = 0
    /\ ret' = Ret(frame, e, <<>>, t)
    /\ console_text' = <<>>
    /\ _recv_buf' = packet \o _recv_buf
    /\ UNCHANGED sent

\* the call in progress raises e out of _recv_bytes, t ticks after it armed its timeout
Abort(e, t) ==
    /\ pc' = "idle"
    /\ packet' = <<>>
    /\ frame' = NoFrame
    /\ time_elapsed' = 0
    /\ ret' = Ret(frame, e, <<>>, t)
    /\ console_text' = <<>>
    /\ UNCHANGED <<_recv_buf, sent>>

\* a call that returns or raises at once
Return(fr, status, value, aux) ==
    /\ ret' = Ret(fr, status, value, aux)
    /\ console_text' = <<>>
    /\ UNCHANGED <<pc, packet, frame>>

NoStart == [buf |-> <<>>, wire |-> <<>>]

\* every call starts with the transport's logs empty
Called ==
    /\ pc = "idle"
    /\ start' = NoStart
    /\ reads' = 0

\* a call that may read keeps what it started from
CalledToRead ==
    /\ pc = "idle"
    /\ start' = [buf |-> _recv_buf, wire |-> wire]
    /\ reads' = 0

\* ------------------------------------------------------------ configuration and lifecycle
set_recv_timeout(timeout) ==
    /\ Called
    /\ _recv_timeout' = timeout
    /\ sent' = <<>>
    /\ Return(Frame("set_recv_timeout", FALSE), "ok", <<>>, 0)
    /\ UNCHANGED <<_socket, _recv_buf, _no_ack_mode, time_elapsed, nsock, sock_up,
                   wire, eof>>

set_no_ack_mode(no_ack_mode) ==
    /\ Called
    /\ _no_ack_mode' = no_ack_mode
    /\ sent' = <<>>
    /\ Return(Frame("set_no_ack_mode", FALSE), "ok", <<>>, 0)
    /\ UNCHANGED <<_socket, _recv_buf, _recv_timeout, time_elapsed, nsock, sock_up,
                   wire, eof>>

\* mutant: the second connect resets the session state before it raises
connect_already_resets ==
    /\ Called
    /\ _socket # 0
    /\ sent' = <<>>
    /\ _recv_buf' = <<>>
    /\ _no_ack_mode' = FALSE
    /\ Return(Frame("connect", FALSE), "RuntimeError_already_connected", <<>>, 0)
    /\ UNCHANGED <<_socket, _recv_timeout, time_elapsed, nsock, sock_up, wire, eof>>

\* connect() on a client that holds a socket object
connect_already ==
    /\ Called
    /\ _socket # 0
    /\ sent' = <<>>
    /\ Return(Frame("connect", FALSE), "RuntimeError_already_connected", <<>>, 0)
    /\ UNCHANGED <<_socket, _recv_buf, _no_ack_mode, _recv_timeout, time_elapsed,
                   nsock, sock_up, wire, eof>>

\* connect() whose socket.connect succeeds, to a peer that sends one of streams
connect_peer(streams) ==
    /\ Called
    /\ _socket = 0
    /\ nsock < MaxSockets
    /\ nsock' = nsock + 1
    /\ _socket' = nsock + 1
    /\ sock_up' = TRUE
    /\ wire' \in streams
    /\ eof' = FALSE
    /\ _recv_buf' = <<>>
    /\ _no_ack_mode' = FALSE
    /\ sent' = <<>>
    /\ Return(Frame("connect", FALSE), "ok", <<>>, 0)
    /\ UNCHANGED <<_recv_timeout, time_elapsed>>

\* mutant: the no-ack mode of the session before survives the connect
connect_ok_keeps_mode ==
    /\ Called
    /\ _socket = 0
    /\ nsock < MaxSockets
    /\ nsock' = nsock + 1
    /\ _socket' = nsock + 1
    /\ sock_up' = TRUE
    /\ wire' \in Streams
    /\ eof' = FALSE
    /\ _recv_buf' = <<>>
    /\ sent' = <<>>
    /\ Return(Frame("connect", FALSE), "ok", <<>>, 0)
    /\ UNCHANGED <<_no_ack_mode, _recv_timeout, time_elapsed>>

\* the peer's stream is any of Streams
connect_ok == connect_peer(Streams)

\* connect() whose socket.connect raises: the socket object is already stored
connect_refused ==
    /\ Called
    /\ _socket = 0
    /\ nsock < MaxSockets
    /\ nsock' = nsock + 1
    /\ _socket' = nsock + 1
    /\ sock_up' = FALSE
    /\ sent' = <<>>
    /\ Return(Frame("connect", FALSE), "OSError", <<>>, 0)
    /\ UNCHANGED <<_recv_buf, _no_ack_mode, _recv_timeout, time_elapsed, wire, eof>>

connect == connect_already \/ connect_ok \/ connect_refused

\* mutant: a socket error during the teardown is not swallowed
disconnect_raises ==
    /\ Called
    /\ \E shutdown_err \in BOOLEAN, close_err \in BOOLEAN :
          /\ (_socket = 0) => (~shutdown_err /\ ~close_err)
          /\ Return(Frame("disconnect", FALSE),
                    IF shutdown_err \/ close_err THEN "OSError" ELSE "ok", <<>>,
                    (IF shutdown_err THEN 1 ELSE 0) + (IF close_err THEN 2 ELSE 0))
          /\ IF shutdown_err \/ close_err
             THEN UNCHANGED <<_recv_buf, _socket, sock_up, wire, eof>>
             ELSE /\ _recv_buf' = <<>>
                  /\ _socket' = 0
                  /\ sock_up' = FALSE
                  /\ wire' = <<>>
                  /\ eof' = FALSE
    /\ sent' = <<>>
    /\ UNCHANGED <<_no_ack_mode, _recv_timeout, time_elapsed, nsock>>

\* disconnect(); shutdown_err and close_err: the socket call raises socket.error,
\* which is swallowed. ret.aux records which did.
disconnect ==
    /\ Called
    /\ \E shutdown_err \in BOOLEAN, close_err \in BOOLEAN :
          /\ (_socket = 0) => (~shutdown_err /\ ~close_err)
          /\ Return(Frame("disconnect", FALSE), "ok", <<>>,
                    (IF shutdown_err THEN 1 ELSE 0) + (IF close_err THEN 2 ELSE 0))
    /\ _recv_buf' = <<>>
    /\ _socket' = 0
    /\ sock_up' = FALSE
    /\ wire' = <<>>
    /\ eof' = FALSE
    /\ sent' = <<>>
    /\ UNCHANGED <<_no_ack_mode, _recv_timeout, time_elapsed, nsock>>

\* ------------------------------------------------------------ sending
\* _send_bytes(data) as the whole of a call named op
send_only(op, data) ==
    /\ Called
    /\ IF _socket = 0
       THEN /\ sent' = <<>>
            /\ Return(Frame(op, FALSE), "RuntimeError_not_connected_send", <<>>, 0)
       ELSE LET s == socket_send(data, <<>>) IN
            /\ sent' = s.sent
            /\ Return(Frame(op, FALSE), s.status, <<>>, 0)
    /\ UNCHANGED <<_socket, _recv_buf, _no_ack_mode, _recv_timeout, time_elapsed,
                   nsock, sock_up, wire, eof>>

send_ack == send_only("send_ack", <<PLUS>>)
send_nack == send_only("send_nack", <<MINUS>>)
send_ctrl_c == send_only("send_ctrl_c", <<CTRL_C>>)

\* mutant: the no-ack mode is not looked at
send_packet_waits_always(chk) == chk

\* line 72: whether send_packet goes on to check_ack
send_packet_waits(chk) == chk /\ ~_no_ack_mode

send_packet(packet_data, custom_checksum, chk) ==
    /\ CalledToRead
    /\ LET data == create_packet(packet_data, custom_checksum)
           s == socket_send(data.val, <<>>)
       IN  IF data.err # "" \/ _socket = 0 \/ s.status # "ok"
           THEN /\ sent' = <<>>
                /\ Return(Frame("send_packet", chk),
                          IF data.err # "" THEN data.err
                          ELSE IF _socket = 0 THEN "RuntimeError_not_connected_send"
                          ELSE s.status,
                          <<>>, 0)
                /\ UNCHANGED <<_recv_buf, time_elapsed>>
           ELSE IF send_packet_waits(chk)
           THEN Advance(check_ack_run(_recv_buf), Frame("send_packet", chk), s.sent, 0)
           ELSE /\ sent' = s.sent
                /\ Return(Frame("send_packet", chk), "ok", <<>>, 0)
                /\ UNCHANGED <<_recv_buf, time_elapsed>>
    /\ UNCHANGED <<_socket, _no_ack_mode, _recv_timeout, nsock, sock_up, wire, eof>>

\* ------------------------------------------------------------ receiving
\* mutant: _recv_bytes does not look at the socket handle
recv_call_unguarded(fr, stage) ==
    /\ CalledToRead
    /\ Advance(Run(stage, _recv_buf, <<>>), fr, <<>>, 0)
    /\ UNCHANGED <<_socket, _no_ack_mode, _recv_timeout, nsock, sock_up, wire, eof>>

\* A call that starts with _start_recv_timeout and then reads from `stage`.
recv_call(fr, stage) ==
    /\ CalledToRead
    /\ IF _socket = 0
       THEN /\ sent' = <<>>
            /\ Return(fr, "RuntimeError_not_connected_recv", <<>>, 0)
            /\ UNCHANGED <<_recv_buf, time_elapsed>>
       ELSE Advance(Run(stage, _recv_buf, <<>>), fr, <<>>, 0)
    /\ UNCHANGED <<_socket, _no_ack_mode, _recv_timeout, nsock, sock_up, wire, eof>>

check_ack == recv_call(Frame("check_ack", FALSE), "ack")

recv_packet(validate_and_ack) == recv_call(Frame("recv_packet", validate_and_ack), "start")

recv_and_decode_packet_data ==
    recv_call(Frame("recv_and_decode_packet_data", TRUE), "start")

\* ------------------------------------------------------------ client.py
\* "O", the first byte of a console output packet
O_LETTER == 79

\* bytes.decode("ascii")
bytes_decode_ascii(b) ==
    IF \E k \in 1..Len(b) : b[k] >= AsciiLimit THEN Raise("UnicodeDecodeError") ELSE Ok(b)

\* int(c, 16) for a hex digit c
HexValue(c) ==
    IF c \in 48..57 THEN c - 48 ELSE IF c \in 97..102 THEN c - 87 ELSE c - 55

RECURSIVE fromhex(_)
\* bytes.fromhex on an even number of characters, none of them whitespace
fromhex(h) ==
    IF h = <<>> THEN Ok(<<>>)
    ELSE IF ~is_hex_char(h[1]) \/ ~is_hex_char(h[2]) THEN Raise("ValueError_fromhex")
    ELSE LET r == fromhex(SubSeq(h, 3, Len(h))) IN
         IF r.err # "" THEN r
         ELSE Ok(<<16 * HexValue(h[1]) + HexValue(h[2])>> \o r.val)

ascii_from_hex(hex_digits) ==
    IF Len(hex_digits) % 2 # 0 THEN Raise("ValueError_odd")
    ELSE LET b == fromhex(hex_digits) IN
         IF b.err # "" THEN b ELSE bytes_decode_ascii(b.val)

\* mutant: the text of a later packet is put first
console_prepend(console, text) == text \o console

\* line 79: console_text += ...
console_append(console, text) == console \o text

\* where get_stop_reply stands: waiting for the transport (st = "block") or ended
StopOutcome(st, stage, buf, pkt, console, snt, status, value, rearmed) ==
    [st |-> st, stage |-> stage, buf |-> buf, packet |-> pkt, console_text |-> console,
     sent |-> snt, status |-> status, value |-> value, rearmed |-> rearmed]

RECURSIVE get_stop_reply_run(_, _, _, _, _, _)
\* The loop of get_stop_reply from `stage` of the packet at hand on, on a buffer:
\* console is console_text, snt what was written, rearmed whether a further
\* recv_and_decode_packet_data call has started its own timeout.
get_stop_reply_run(stage, buf, pkt, console, snt, rearmed) ==
    LET o == recv_packet_run(stage, buf, pkt) IN
    IF o.st = "block"
    THEN StopOutcome("block", o.stage, o.buf, o.packet, console, snt, "pending", <<>>, rearmed)
    ELSE LET reply == Finish(o, Frame("recv_and_decode_packet_data", TRUE), snt)
             reply_str == bytes_decode_ascii(reply.value)
             text == ascii_from_hex(PyFrom(reply_str.val, 1))
         IN  IF reply.status # "ok"
             THEN StopOutcome("done", "idle", o.buf, <<>>, console, reply.sent,
                              reply.status, reply.value, rearmed)
             ELSE IF reply_str.err # ""
             THEN StopOutcome("done", "idle", o.buf, <<>>, console, reply.sent,
                              reply_str.err, reply.value, rearmed)
             ELSE IF PySlice(reply_str.val, 0, 1) # <<O_LETTER>>
             THEN StopOutcome("done", "idle", o.buf, <<>>, console, reply.sent,
                              "ok", reply_str.val, rearmed)
             ELSE IF text.err # ""
             THEN StopOutcome("done", "idle", o.buf, <<>>, console, reply.sent,
                              text.err, reply.value, rearmed)
             ELSE get_stop_reply_run("start", o.buf, <<>>, console_append(console, text.val),
                                     reply.sent, TRUE)

\* get_stop_reply goes on after a run with outcome o, t ticks after the
\* recv_and_decode_packet_data call at hand when the run began armed its timeout
AdvanceStop(o, t) ==
    LET fr == Frame("get_stop_reply", FALSE)
        elapsed == IF o.rearmed THEN 0 ELSE t
    IN  /\ _recv_buf' = o.buf
        /\ console_text' = o.console_text
        /\ sent' = o.sent
        /\ IF o.st = "block"
           THEN /\ pc' = o.stage
                /\ packet' = o.packet
                /\ frame' = fr
                /\ time_elapsed' = elapsed
                /\ ret' = Pending(fr)
           ELSE /\ pc' = "idle"
                /\ packet' = <<>>
                /\ frame' = NoFrame
                /\ time_elapsed' = 0
                /\ ret' = Ret(fr, o.status, o.value, elapsed)

\* get_stop_reply(): returns (ret.value, console_text)
get_stop_reply ==
    /\ CalledToRead
    /\ IF _socket = 0
       THEN /\ sent' = <<>>
            /\ Return(Frame("get_stop_reply", FALSE), "RuntimeError_not_connected_recv", <<>>, 0)
            /\ UNCHANGED <<_recv_buf, time_elapsed>>
       ELSE AdvanceStop(get_stop_reply_run("start", _recv_buf, <<>>, <<>>, <<>>, FALSE), 0)
    /\ UNCHANGED <<_socket, _no_ack_mode, _recv_timeout, nsock, sock_up, wire, eof>>

\* _recv_bytes, lines 93-103: the call in progress needs the transport.
\* The remaining time is used up before socket.recv is tried.
recv_bytes_no_time_left ==
    /\ pc # "idle"
    /\ _get_recv_time_left = 0
    /\ Abort("RecvTimeoutError", time_elapsed)
    /\ UNCHANGED <<_socket, _no_ack_mode, _recv_timeout, nsock, sock_up,
                   wire, eof, reads, start>>

\* The remaining time is exactly 0: the assert of line 128 fails.
recv_bytes_assert ==
    /\ pc # "idle"
    /\ _get_recv_time_left = AssertFail
    /\ Abort("AssertionError", time_elapsed)
    /\ UNCHANGED <<_socket, _no_ack_mode, _recv_timeout, nsock, sock_up,
                   wire, eof, reads, start>>

\* socket.recv on a socket whose connection was never established
recv_bytes_oserror ==
    /\ pc # "idle"
    /\ _get_recv_time_left > 0
    /\ ~sock_up
    /\ reads' = Min(reads + 1, MaxReads)
    /\ Abort("OSError", time_elapsed)
    /\ UNCHANGED <<_socket, _no_ack_mode, _recv_timeout, nsock, sock_up,
                   wire, eof, start>>

\* socket.recv blocks for d ticks and returns the next n bytes of the stream
recv_bytes_data ==
    /\ pc # "idle"
    /\ sock_up
    /\ LET time_left == _get_recv_time_left IN
       /\ time_left > 0
       /\ \E d \in 0..time_left, n \in 1..Min(Len(wire), RECV_BLOCK_SIZE) :
             /\ time_elapsed + d <= MaxElapsed
             /\ wire' = PyFrom(wire, n)
             /\ IF frame.op = "get_stop_reply"
                THEN AdvanceStop(get_stop_reply_run(pc, _recv_buf \o PySlice(wire, 0, n),
                                                    packet, console_text, sent, FALSE),
                                 time_elapsed + d)
                ELSE Advance(Run(pc, _recv_buf \o PySlice(wire, 0, n), packet), frame, sent,
                             time_elapsed + d)
    /\ reads' = Min(reads + 1, MaxReads)
    /\ UNCHANGED <<_socket, _no_ack_mode, _recv_timeout, nsock, sock_up,
                   eof, start>>

\* socket.recv returns b"": the peer has closed and nothing is left to read
recv_bytes_eof ==
    /\ pc # "idle"
    /\ sock_up
    /\ _get_recv_time_left > 0
    /\ eof
    /\ wire = <<>>
    /\ reads' = Min(reads + 1, MaxReads)
    /\ UNCHANGED <<_socket, _recv_buf, _no_ack_mode, _recv_timeout, time_elapsed,
                   nsock, sock_up, wire, eof, pc, packet, frame, ret, sent, start,
                   console_text>>

\* socket.recv blocks for the whole remaining time and raises socket.timeout;
\* once the peer has closed, socket.recv returns b"" at once instead
recv_bytes_timeout ==
    /\ pc # "idle"
    /\ sock_up
    /\ ~eof
    /\ LET time_left == _get_recv_time_left IN
       /\ time_left > 0
       /\ time_elapsed + time_left <= MaxElapsed
       /\ Abort("RecvTimeoutError", time_elapsed + time_left)
    /\ reads' = Min(reads + 1, MaxReads)
    /\ UNCHANGED <<_socket, _no_ack_mode, _recv_timeout, nsock, sock_up,
                   wire, eof, start>>

_recv_bytes ==
    \/ recv_bytes_no_time_left
    \/ recv_bytes_assert
    \/ recv_bytes_oserror
    \/ recv_bytes_data
    \/ recv_bytes_eof
    \/ recv_bytes_timeout

\* ------------------------------------------------------------ the environment
\* time passes while a call is in progress
Tick ==
    /\ pc # "idle"
    /\ time_elapsed < MaxElapsed
    /\ time_elapsed' = time_elapsed + 1
    /\ UNCHANGED <<_socket, _recv_buf, _no_ack_mode, _recv_timeout, nsock, sock_up, wire, eof, pc, packet, frame, ret, sent, reads, start, console_text>>

\* the peer closes the connection after the last byte of its stream
PeerClose ==
    /\ sock_up
    /\ wire = <<>>
    /\ ~eof
    /\ eof' = TRUE
    /\ UNCHANGED <<_socket, _recv_buf, _no_ack_mode, _recv_timeout, time_elapsed,
                   nsock, sock_up, wire, pc, packet, frame, ret, sent, reads, start,
                   console_text>>

Next ==
    \/ \E t \in Timeouts : set_recv_timeout(t)
    \/ \E b \in BOOLEAN : set_no_ack_mode(b)
    \/ connect
    \/ disconnect
    \/ \E p \in Payloads, c \in Checksums, k \in BOOLEAN : send_packet(p, c, k)
    \/ send_ack
    \/ send_nack
    \/ send_ctrl_c
    \/ check_ack
    \/ \E v \in BOOLEAN : recv_packet(v)
    \/ recv_and_decode_packet_data
    \/ _recv_bytes
    \/ Tick
    \/ PeerClose

Spec == Init /\ [][Next]_vars

\* The program goes on with the read it is waiting in, and the clock keeps
\* advancing while a call is in progress.
SpecLive == Init /\ [][Next]_vars /\ WF_vars(_recv_bytes) /\ WF_vars(Tick)

\* ------------------------------------------------------------ the client on console output
\* get_stop_reply against a peer that sends console output and a stop reply,
\* as the server of test_client.py does.
\* "$O33#b5": console text "3"
PacketOText == <<DOLLAR, O_LETTER, DIGIT3, DIGIT3, HASH, 98, 53>>
\* "$O24#b5": console text "$"
PacketODollar == <<DOLLAR, O_LETTER, 50, 52, HASH, 98, 53>>
\* "$O#4f": console output without text
PacketOEmpty == <<DOLLAR, O_LETTER, HASH, 52, 102>>
\* "$O3#82": an odd number of hex digits
PacketOOdd == <<DOLLAR, O_LETTER, DIGIT3, HASH, 56, 50>>
\* "$O8f#ed": text that is not ASCII
PacketOHigh == <<DOLLAR, O_LETTER, 56, 102, HASH, 101, 100>>

\* console output packets, then what ends or breaks the exchange
StopReplyStreams ==
    {o1 \o o2 \o e :
        o1 \in {<<>>, PacketOText, PacketODollar},
        o2 \in {<<>>, PacketOText, PacketOEmpty},
        e \in {<<>>, PacketGood, PacketGood \o PacketGood, PacketGood \o PacketOText,
               PacketOOdd \o PacketGood, PacketOHigh \o PacketGood, PacketBadSum,
               <<DIGIT3>>}}

ClientNext ==
    \/ \E t \in Timeouts : set_recv_timeout(t)
    \/ \E b \in BOOLEAN : set_no_ack_mode(b)
    \/ connect_already
    \/ connect_peer(StopReplyStreams)
    \/ connect_refused
    \/ disconnect
    \/ get_stop_reply
    \/ _recv_bytes
    \/ Tick
    \/ PeerClose

SpecClient == Init /\ [][ClientNext]_vars

\* ------------------------------------------------------------ the codec called on its own
\* The functions of utils.py called directly, as the tests of test_utils.py do.
\* packet is the argument at hand, start.buf the input it comes from, frame the
\* call whose return value packet is (NoFrame: packet is the input itself), and
\* ret the last call's result.
SPACE == 32
HIGH == 143

\* the longest input, in bytes
MaxCodecLen == 3

SeqsUpTo(S, n) == UNION {[1..k -> S] : k \in 0..n}

\* the escape marker, the delimiters, the run-length marker, an ordinary byte,
\* the smallest repeat count, a byte below the repeat counts, a byte over 127
CodecBytes == {RBRACE, DOLLAR, HASH, STAR, DIGIT3, SPACE, CTRL_C, HIGH}

\* "$" or not, data, "#" or not, then a checksum: the right one, a wrong one,
\* one that is not two hex digits
FramedInputs ==
    {<<f>> \o d \o <<h>> \o c :
        f \in {DOLLAR, DIGIT3},
        d \in SeqsUpTo({DOLLAR, HASH, DIGIT3, HIGH}, MaxCodecLen - 1),
        h \in {HASH, DIGIT3},
        c \in {<<DIGIT3, DIGIT3>>, <<DIGIT3, STAR>>}}
    \cup {<<DOLLAR>> \o d \o <<HASH>> \o compute_checksum(d) :
             d \in SeqsUpTo({DOLLAR, HASH, DIGIT3, HIGH}, MaxCodecLen - 1)}

CodecInputs == SeqsUpTo(CodecBytes, MaxCodecLen) \cup FramedInputs

CodecChecksums == {NoChecksum, Custom(<<DIGIT3>>), Custom(<<DIGIT3, DIGIT3>>)}

CodecRest ==
    <<_socket, _recv_buf, _no_ack_mode, _recv_timeout, time_elapsed, nsock, sock_up,
      wire, eof, pc, sent, reads, console_text>>

CodecInit ==
    /\ _socket = 0
    /\ _recv_buf = <<>>
    /\ _no_ack_mode = FALSE
    /\ _recv_timeout = DEFALUT_RECV_TIMEOUT
    /\ time_elapsed = 0
    /\ nsock = 0
    /\ sock_up = FALSE
    /\ wire = <<>>
    /\ eof = FALSE
    /\ pc = "idle"
    /\ sent = <<>>
    /\ reads = 0
    /\ console_text = <<>>
    /\ frame = NoFrame
    /\ ret = Ret(Frame("none", FALSE), "ok", <<>>, 0)
    /\ \E p \in CodecInputs :
          /\ packet = p
          /\ start = [buf |-> p, wire |-> <<>>]

\* a codec function returned r = [err, val], or raised r.err
Returned(op, arg, r) ==
    /\ ret' = Ret(Frame(op, arg), IF r.err = "" THEN "ok" ELSE r.err, r.val, 0)
    /\ UNCHANGED <<packet, frame, start>>
    /\ UNCHANGED CodecRest

Encode == Returned("encode_packet_data", FALSE, Ok(encode_packet_data(packet)))

Decode == Returned("decode_packet_data", FALSE, decode_packet_data(packet))

Create(custom_checksum) ==
    Returned("create_packet", custom_checksum.given, create_packet(packet, custom_checksum))

Validate ==
    Returned("validate_packet", FALSE,
             IF validate_packet(packet) = "ok" THEN Ok(<<>>) ELSE Raise(validate_packet(packet)))

\* the caller hands the bytes returned from the input to the next call
PassOn ==
    /\ frame = NoFrame
    /\ ret.op \in {"encode_packet_data", "create_packet"}
    /\ ret.status = "ok"
    /\ packet' = ret.value
    /\ frame' = Frame(ret.op, ret.arg)
    /\ ret' = Ret(Frame("none", FALSE), "ok", <<>>, 0)
    /\ UNCHANGED start
    /\ UNCHANGED CodecRest

CodecNext ==
    \/ Encode
    \/ Decode
    \/ \E c \in CodecChecksums : Create(c)
    \/ Validate
    \/ PassOn

SpecCodec == CodecInit /\ [][CodecNext]_vars

\* ------------------------------------------------------------ properties
\* the incoming stream as the parser sees it: buffered bytes, then unread ones
Stream0 == start.buf \o start.wire
Stream1 == _recv_buf \o wire

Ended == ret.status # "pending"

\* the position of the first "#" of s, 0 when it has none
FirstHash(s) ==
    IF Contains(s, HASH) THEN CHOOSE k \in 1..Len(s) : s[k] = HASH /\ ~Contains(SubSeq(s, 1, k - 1), HASH)
    ELSE 0

\* s begins with "$", a payload without "#", "#" and two more bytes
FramedLead(s) == Len(s) >= 1 /\ s[1] = DOLLAR /\ FirstHash(s) > 0 /\ Len(s) >= FirstHash(s) + 2

LeadingFrame(s) == SubSeq(s, 1, FirstHash(s) + 2)
LeadingPayload(s) == SubSeq(s, 2, FirstHash(s) - 1)
AfterFrame(s) == SubSeq(s, FirstHash(s) + 3, Len(s))

\* s begins with "$" + payload without "#" + "#" + the two correct checksum digits
WellFormedLead(s) ==
    /\ FramedLead(s)
    /\ SubSeq(s, FirstHash(s) + 1, FirstHash(s) + 2) = compute_checksum(LeadingPayload(s))

\* ... whose payload has no "$" either and whose "#" comes within MAX_RECV_PACKET bytes
ValidLead(s) ==
    /\ WellFormedLead(s)
    /\ ~Contains(LeadingPayload(s), DOLLAR)
    /\ FirstHash(s) <= MAX_RECV_PACKET

\* the failures of a receiving call that come from the clock alone
ClockFailures == {"RecvTimeoutError", "AssertionError"}

\* C1 as stated: a recv_packet call made on an empty buffer, facing a stream that
\* begins with a well-formed packet P, returns P (unless the clock ends it) and
\* leaves the read bytes that follow P in the buffer.
C1_Original ==
    (/\ ret.op = "recv_packet"
     /\ start.buf = <<>>
     /\ WellFormedLead(start.wire)
     /\ Ended
     /\ ret.status \notin ClockFailures)
        => /\ ret.status = "ok"
           /\ ret.value = LeadingFrame(start.wire)
           /\ Stream1 = AfterFrame(start.wire)

\* C1 amended: the same for a stream that begins with a packet P validate_packet
\* accepts (no "#" and no "$" in its payload, correct checksum digits) whose "#"
\* comes within MAX_RECV_PACKET bytes: the call never fails with a protocol or
\* format error, it asks the transport only while the buffer holds fewer bytes
\* than the read in progress requests, it returns exactly P, and after it the
\* buffer holds exactly the bytes read beyond P, in arrival order.
C1_RecvPacketReassembles ==
    (/\ ret.op = "recv_packet"
     /\ start.buf = <<>>
     /\ ValidLead(start.wire))
        => /\ ret.status \in {"pending", "ok"} \cup ClockFailures
           /\ (pc # "idle") =>
                 /\ Len(_recv_buf) < Requested(pc)
                 /\ packet \o _recv_buf \o wire = start.wire
           /\ (ret.status = "ok") =>
                 /\ ret.value = LeadingFrame(start.wire)
                 /\ reads >= 1
                 /\ ret.value \o _recv_buf \o wire = start.wire

\* a good packet arrived in several reads, and bytes read beyond it are buffered
C1_Witness ==
    /\ ret.op = "recv_packet"
    /\ ret.status = "ok"
    /\ start.buf = <<>>
    /\ ret.value = PacketGood
    /\ reads >= 2
    /\ _recv_buf # <<>>

\* a step of the call in progress (not of the clock or the peer alone)
CallMoves == pc' # pc \/ reads' # reads \/ ret' # ret \/ wire' # wire

\* C2 as stated: a recv_packet call that succeeds completed its packet within
\* the configured receive timeout (once the elapsed time exceeds the timeout
\* with the packet incomplete, the call fails).
C2_Original ==
    (ret.op = "recv_packet" /\ ret.status = "ok") => ret.aux <= _recv_timeout

\* C2 amended: when a recv_packet call needs the transport and the time elapsed
\* since the call started exceeds the receive timeout, the call fails with a
\* timeout error without reading; a timeout error is never raised before the
\* timeout has elapsed, however many reads were made; and since a remaining time
\* strictly between 0 and 1 unit is rounded up to a wait of 1 unit, a call that
\* succeeds has completed less than 1 unit after the timeout.
C2_TimeoutAccounting ==
    [][(pc # "idle" /\ frame.op = "recv_packet") =>
          /\ (time_elapsed > _recv_timeout /\ CallMoves) =>
                /\ ret'.status = "RecvTimeoutError"
                /\ reads' = reads
                /\ wire' = wire
          /\ (ret'.status = "RecvTimeoutError") => ret'.aux >= _recv_timeout
          /\ (ret'.status = "AssertionError") => ret'.aux = _recv_timeout
          /\ (ret'.status = "ok") => ret'.aux < _recv_timeout + TicksPerUnit]_vars

\* a recv_packet call timed out past the deadline after several reads
C2_Witness ==
    /\ ret.op = "recv_packet"
    /\ ret.status = "RecvTimeoutError"
    /\ reads >= 2
    /\ ret.aux > _recv_timeout
    /\ start.wire # wire

\* what check_ack makes of the byte it reads
AckStatus(b) ==
    IF b = PLUS THEN "ok"
    ELSE IF b = MINUS THEN "ProtocolError_nack"
    ELSE "ProtocolError_unexpected_ack"

\* C3 as stated: a check_ack call on a connected socket consumes exactly one byte
\* of the incoming stream and ends as that byte says ("+" returns, "-" and every
\* other byte raise a protocol error), or no byte arrived and it ends with a
\* timeout error.
C3_Original ==
    (ret.op = "check_ack" /\ Ended /\ sock_up)
        => \/ /\ Stream0 # <<>>
              /\ Stream1 = Tail(Stream0)
              /\ ret.status = AckStatus(Head(Stream0))
           \/ /\ Stream1 = Stream0
              /\ ret.status = "RecvTimeoutError"

\* C3 amended: a check_ack call on a connected socket ends as the first byte of
\* the incoming stream says; it consumes that byte when it is "+" (returns) or
\* "-" (protocol error, NACK), and pushes any other byte back, so that the stream
\* is as before the call (protocol error reporting the byte). When no byte
\* arrives it consumes nothing and fails with a timeout error once the timeout
\* has elapsed, or with the assertion of _get_recv_time_left when a check finds
\* exactly zero time left.
C3_CheckAck ==
    (ret.op = "check_ack" /\ Ended /\ sock_up)
        => \/ /\ Stream0 # <<>>
              /\ Head(Stream0) \in {PLUS, MINUS}
              /\ Stream1 = Tail(Stream0)
              /\ ret.status = AckStatus(Head(Stream0))
           \/ /\ Stream0 # <<>>
              /\ Head(Stream0) \notin {PLUS, MINUS}
              /\ Stream1 = Stream0
              /\ ret.status = "ProtocolError_unexpected_ack"
              /\ ret.value = <<Head(Stream0)>>
           \/ /\ start.buf = <<>>
              /\ _recv_buf = <<>>
              /\ wire = start.wire
              /\ \/ ret.status = "RecvTimeoutError" /\ ret.aux >= _recv_timeout
                 \/ ret.status = "AssertionError" /\ ret.aux = _recv_timeout

\* check_ack read a chunk that starts with a byte that is neither "+" nor "-"
C3_Witness ==
    /\ ret.op = "check_ack"
    /\ ret.status = "ProtocolError_unexpected_ack"
    /\ start.buf = <<>>
    /\ reads >= 1
    /\ Len(_recv_buf) >= 2

\* check_ack has been performed by the latest call
CheckAckPerformed ==
    \/ pc = "ack"
    \/ ret.status \in ClockFailures
    \/ /\ Stream0 # <<>>
       /\ ret.status = AckStatus(Head(Stream0))
       /\ Stream1 = (IF Head(Stream0) \in {PLUS, MINUS} THEN Tail(Stream0) ELSE Stream0)

\* C4: a send_packet call that has written its packet performs check_ack if and
\* only if its check_ack argument is true and ACK-mode is enabled; otherwise it
\* returns without any transport read and with the receive buffer as it was.
C4_SendPacketWaitsForAck ==
    (ret.op = "send_packet" /\ sent # <<>>)
        => IF ret.arg /\ ~_no_ack_mode
           THEN CheckAckPerformed
           ELSE /\ pc = "idle"
                /\ ret.status = "ok"
                /\ reads = 0
                /\ _recv_buf = start.buf
                /\ wire = start.wire

\* send_packet(check_ack=True) in no-ack mode left a non-empty buffer alone
C4_Witness ==
    /\ ret.op = "send_packet"
    /\ ret.arg
    /\ _no_ack_mode
    /\ sent # <<>>
    /\ ret.status = "ok"
    /\ _recv_buf # <<>>
    /\ wire # <<>>

FormatErrors ==
    {"PacketFormatError_short", "PacketFormatError_first", "PacketFormatError_hash",
     "PacketFormatError_dollar_in_data", "PacketFormatError_hash_in_data",
     "PacketFormatError_checksum_syntax", "PacketFormatError_checksum"}

\* C5: a recv_packet call writes one ACK "+" to the transport if and only if
\* validate_and_ack is true, the complete packet passed validate_packet and
\* ACK-mode is enabled; in every other case it writes nothing, and it writes
\* nothing while the packet is incomplete.
C5_RecvPacketAcks ==
    (ret.op = "recv_packet")
        => /\ ~Ended => sent = <<>>
           /\ Ended =>
                 IF ret.arg /\ ~_no_ack_mode /\ ret.status = "ok"
                 THEN sent = << <<PLUS>> >> /\ validate_packet(ret.value) = "ok"
                 ELSE sent = <<>>
           /\ (ret.status \in FormatErrors) =>
                 ret.arg /\ validate_packet(ret.value) = ret.status
           /\ (ret.status = "ok" /\ ret.arg) => validate_packet(ret.value) = "ok"

\* recv_packet acknowledged a packet that arrived in several reads
C5_Witness ==
    /\ ret.op = "recv_packet"
    /\ ret.status = "ok"
    /\ sent = << <<PLUS>> >>
    /\ reads >= 2

SendOps == {"send_packet", "send_ack", "send_nack", "send_ctrl_c"}
RecvOps == {"check_ack", "recv_packet", "recv_and_decode_packet_data"}

\* the transport and the session state are as they were
SessionUntouched ==
    UNCHANGED <<_socket, nsock, sock_up, wire, eof, _recv_buf, _no_ack_mode, _recv_timeout>>

\* C6 as stated: every send or receive operation called while the client holds
\* no socket fails with the 'not connected' error, does no transport I/O and
\* leaves the client without a socket.
C6_Original ==
    [][(_socket = 0 /\ pc = "idle" /\ ret'.op \in SendOps \cup RecvOps)
          => /\ ret'.status = (IF ret'.op \in SendOps
                               THEN "RuntimeError_not_connected_send"
                               ELSE "RuntimeError_not_connected_recv")
             /\ sent' = <<>>
             /\ reads' = 0
             /\ pc' = "idle"
             /\ SessionUntouched]_vars

\* C6 amended: every send or receive operation called while the client holds no
\* socket does no transport I/O, leaves the client without a socket and fails:
\* with the 'not connected' error, except that send_packet called with an
\* argument create_packet rejects fails with create_packet's error instead.
C6_NotConnected ==
    [][(_socket = 0 /\ pc = "idle" /\ ret'.op \in SendOps \cup RecvOps)
          => /\ sent' = <<>>
             /\ reads' = 0
             /\ pc' = "idle"
             /\ SessionUntouched
             /\ (ret'.op \in RecvOps) => ret'.status = "RuntimeError_not_connected_recv"
             /\ (ret'.op \in SendOps \ {"send_packet"})
                   => ret'.status = "RuntimeError_not_connected_send"
             /\ \A p \in Payloads, c \in Checksums, k \in BOOLEAN :
                   send_packet(p, c, k) =>
                       ret'.status = (IF create_packet(p, c).err # ""
                                      THEN create_packet(p, c).err
                                      ELSE "RuntimeError_not_connected_send")]_vars

\* recv_packet was refused after a session had been closed
C6_Witness ==
    /\ _socket = 0
    /\ nsock >= 1
    /\ ret.op = "recv_packet"
    /\ ret.status = "RuntimeError_not_connected_recv"

\* C7: connect on a client that is connected fails with the 'already connected'
\* error; no socket is opened, and the socket handle, the receive buffer and the
\* ACK-mode flag are as before.
C7_ConnectTwice ==
    [][(_socket # 0 /\ connect)
          => /\ ret'.status = "RuntimeError_already_connected"
             /\ sent' = <<>>
             /\ SessionUntouched]_vars

\* the second connect was refused with bytes in the buffer and no-ack mode set
C7_Witness ==
    /\ ret.op = "connect"
    /\ ret.status = "RuntimeError_already_connected"
    /\ sock_up
    /\ _recv_buf # <<>>
    /\ _no_ack_mode

\* C8: disconnect called in any state returns without raising, whatever the
\* socket's shutdown and close report, and leaves the client without a socket
\* and with an empty receive buffer; on a client without a socket it changes
\* nothing.
C8_DisconnectIdempotent ==
    [][disconnect
          => /\ ret'.status = "ok"
             /\ ret'.op = "disconnect"
             /\ _socket' = 0
             /\ _recv_buf' = <<>>
             /\ pc' = "idle"
             /\ (_socket = 0) => SessionUntouched]_vars

\* a disconnect whose shutdown and close both raised
C8_Witness ==
    /\ ret.op = "disconnect"
    /\ ret.aux = 3
    /\ _socket = 0
    /\ _recv_buf = <<>>
    /\ nsock >= 1

\* C9: after a successful connect, and until the next call, ACK-mode is enabled
\* and the receive buffer is empty.
C9_ConnectResets ==
    (ret.op = "connect" /\ ret.status = "ok") => (~_no_ack_mode /\ _recv_buf = <<>>)

\* the second session has been opened
C9_Witness ==
    /\ ret.op = "connect"
    /\ ret.status = "ok"
    /\ nsock = 2
    /\ _socket = 2

\* s starts a packet that goes on after MAX_RECV_PACKET bytes without a "#"
Oversized(s) ==
    /\ Len(s) > MAX_RECV_PACKET
    /\ s[1] = DOLLAR
    /\ ~Contains(SubSeq(s, 1, MAX_RECV_PACKET), HASH)

\* C10: recv_packet never goes on with more than MAX_RECV_PACKET bytes of a
\* packet; on a stream that starts a packet which goes on after MAX_RECV_PACKET
\* bytes without having ended it fails, if not on the clock, with the protocol
\* error for an excessive packet at byte MAX_RECV_PACKET + 1, leaving the bytes
\* after it unread or in the buffer, and it sends no ACK or NACK.
C10_ExcessivePacket ==
    /\ (pc \in {"start", "body", "cksum"}) => Len(packet) <= MAX_RECV_PACKET
    /\ (ret.op \in {"recv_packet", "recv_and_decode_packet_data"} /\ Ended /\ sock_up)
          => /\ (ret.status = "ProtocolError_excessive") =>
                    /\ Oversized(Stream0)
                    /\ ret.value = SubSeq(Stream0, 1, MAX_RECV_PACKET + 1)
                    /\ Stream1 = PyFrom(Stream0, MAX_RECV_PACKET + 1)
                    /\ sent = <<>>
             /\ Oversized(Stream0) =>
                    ret.status \in {"ProtocolError_excessive"} \cup ClockFailures

\* the packet was found excessive with a byte more in the buffer and time left
C10_Witness ==
    /\ ret.op = "recv_packet"
    /\ ret.status = "ProtocolError_excessive"
    /\ _recv_buf # <<>>
    /\ reads >= 2
    /\ ret.aux < _recv_timeout

PacketOps == {"recv_packet", "recv_and_decode_packet_data"}

\* C11: a recv_packet call on a stream whose first byte is not "$" fails with
\* the protocol error for the start of a packet as soon as it has that byte: it
\* consumes that byte alone, makes at most the one transport read that brought
\* it, and sends nothing; without any byte it fails on the clock. The error is
\* raised for no other stream.
C11_UnexpectedStart ==
    (ret.op \in PacketOps /\ Ended /\ sock_up)
        => /\ (Stream0 # <<>> /\ Head(Stream0) # DOLLAR) =>
                 \/ /\ ret.status = "ProtocolError_start"
                    /\ ret.value = <<Head(Stream0)>>
                    /\ Stream1 = Tail(Stream0)
                    /\ reads = (IF start.buf = <<>> THEN 1 ELSE 0)
                    /\ sent = <<>>
                 \/ /\ ret.status \in ClockFailures
                    /\ Stream1 = Stream0
                    /\ _recv_buf = <<>>
                    /\ sent = <<>>
           /\ (ret.status = "ProtocolError_start") =>
                 (Stream0 # <<>> /\ Head(Stream0) # DOLLAR)

\* the call failed on a byte that a well-formed packet follows
C11_Witness ==
    /\ ret.op = "recv_packet"
    /\ ret.status = "ProtocolError_start"
    /\ reads = 1
    /\ Stream1 = PacketGood
    /\ sent = <<>>

\* ------------------------------------------------------------ properties of the codec
\* the last call decoded what encode_packet_data returned for the input start.buf
RoundTripped ==
    /\ frame.op = "encode_packet_data"
    /\ ret.op = "decode_packet_data"
    /\ packet = encode_packet_data(start.buf)

NoneOf(s, B) == \A k \in 1..Len(s) : s[k] \notin B

\* no "*" of s comes right after a byte that encode_packet_data copies
NoStarAfterCopied(s) ==
    \A k \in 2..Len(s) : s[k] = STAR => s[k - 1] \in {RBRACE, DOLLAR, HASH}

\* C12 as stated: for every payload p without "}", "$" and "#",
\* decode_packet_data(encode_packet_data(p)) returns p.
C12_Original ==
    (RoundTripped /\ NoneOf(start.buf, {RBRACE, DOLLAR, HASH}))
        => (ret.status = "ok" /\ ret.value = start.buf)

\* C12 amended: decode_packet_data(encode_packet_data(p)) returns p exactly for
\* the payloads p in which no "*" comes right after a byte other than "}", "$",
\* "#" (so for every p without "*", whatever else it holds); for any other p it
\* raises a format error or returns other bytes.
C12_RoundTrip ==
    RoundTripped
        => ((ret.status = "ok" /\ ret.value = start.buf) <=> NoStarAfterCopied(start.buf))

\* a payload of escaped and copied bytes came back
C12_Witness ==
    /\ RoundTripped
    /\ ret.status = "ok"
    /\ ret.value = start.buf
    /\ Len(start.buf) = MaxCodecLen
    /\ Contains(start.buf, RBRACE)
    /\ Contains(start.buf, HIGH)

\* "0123456789abcdef"
LowerHex == <<48, 49, 50, 51, 52, 53, 54, 55, 56, 57, 97, 98, 99, 100, 101, 102>>

\* the two lowercase hex digits of v < 256
TwoHex(v) == <<LowerHex[(v \div 16) + 1], LowerHex[(v % 16) + 1]>>

\* C13: create_packet(p) without a custom checksum returns, for every payload
\* p, a packet validate_packet accepts: at least 4 bytes, "$" first, "#" before
\* the last two, between them the encoded payload without "$" and "#", and at
\* the end the two lowercase hex digits of the sum of the encoded bytes mod 256.
C13_CreatedPacketIsValid ==
    /\ (ret.op = "create_packet" /\ ~ret.arg) =>
          LET r == ret.value
              n == Len(r)
              body == SubSeq(r, 2, n - 3)
          IN  /\ ret.status = "ok"
              /\ validate_packet(r) = "ok"
              /\ n >= 4
              /\ r[1] = DOLLAR
              /\ r[n - 2] = HASH
              /\ body = encode_packet_data(packet)
              /\ NoneOf(body, {DOLLAR, HASH})
              /\ SubSeq(r, n - 1, n) = TwoHex(SumSeq(body) % 256)
    /\ (frame.op = "create_packet" /\ ~frame.arg /\ ret.op = "validate_packet") =>
          ret.status = "ok"

\* validate_packet accepted the packet made of a payload with "$", "#" and a
\* byte over 127
C13_Witness ==
    /\ frame.op = "create_packet"
    /\ ~frame.arg
    /\ ret.op = "validate_packet"
    /\ ret.status = "ok"
    /\ Contains(start.buf, DOLLAR)
    /\ Contains(start.buf, HASH)
    /\ Contains(start.buf, HIGH)

\* hex digits, of either case
HexDigits == {LowerHex[k] : k \in 1..Len(LowerHex)} \cup (65..70)

\* The first of the six conditions of C14 that packet p fails, 0 when it fails none:
\* 1 length, 2 first byte, 3 delimiter, 4 "$" or "#" in the payload,
\* 5 checksum syntax, 6 checksum value.
FirstFailing(p) ==
    LET n == Len(p)
        payload == SubSeq(p, 2, n - 3)
    IN  IF n < 4 THEN 1
        ELSE IF p[1] # DOLLAR THEN 2
        ELSE IF p[n - 2] # HASH THEN 3
        ELSE IF ~NoneOf(payload, {DOLLAR, HASH}) THEN 4
        ELSE IF p[n - 1] \notin HexDigits \/ p[n] \notin HexDigits THEN 5
        ELSE IF SubSeq(p, n - 1, n) # TwoHex(SumSeq(payload) % 256) THEN 6
        ELSE 0

\* the condition a result of validate_packet names
NamedCondition(status) ==
    CASE status = "ok" -> 0
      [] status = "PacketFormatError_short" -> 1
      [] status = "PacketFormatError_first" -> 2
      [] status = "PacketFormatError_hash" -> 3
      [] status \in {"PacketFormatError_dollar_in_data", "PacketFormatError_hash_in_data"} -> 4
      [] status = "PacketFormatError_checksum_syntax" -> 5
      [] status = "PacketFormatError_checksum" -> 6
      [] OTHER -> 7

\* C14: validate_packet returns normally exactly for the packets that fail none
\* of the six conditions, and otherwise raises the format error that names the
\* first condition, in the order of the list, that the packet fails.
C14_ValidateReportsFirstFailure ==
    (ret.op = "validate_packet") => NamedCondition(ret.status) = FirstFailing(packet)

\* a packet that fails the first-byte, the delimiter and the checksum syntax
\* condition was rejected for its first byte
C14_Witness ==
    /\ ret.op = "validate_packet"
    /\ ret.status = "PacketFormatError_first"
    /\ Len(packet) > 4
    /\ packet[Len(packet) - 2] # HASH
    /\ packet[Len(packet)] = STAR

\* b XOR 0x20
FlipBit5(b) == IF b % 64 >= 32 THEN b - 32 ELSE b + 32

DecodeFormatErrors ==
    {"PacketFormatError_escape_missing", "PacketFormatError_rle_missing",
     "PacketFormatError_rle_special", "PacketFormatError_rle_range"}

RECURSIVE ReferenceScan(_, _)
\* the scanner of C15 on the bytes d still to read, out being emitted so far
ReferenceScan(d, out) ==
    IF d = <<>> THEN Ok(out)
    ELSE IF d[1] = RBRACE
    THEN IF Len(d) < 2 THEN Raise("format error")
         ELSE ReferenceScan(SubSeq(d, 3, Len(d)), out \o <<FlipBit5(d[2])>>)
    ELSE IF Len(d) >= 2 /\ d[2] = STAR
    THEN IF Len(d) < 3 \/ d[3] \in {HASH, DOLLAR} \/ d[3] \notin 32..126
         THEN Raise("format error")
         ELSE ReferenceScan(SubSeq(d, 4, Len(d)), out \o [k \in 1..(d[3] - 28) |-> d[1]])
    ELSE ReferenceScan(Tail(d), out \o <<d[1]>>)

\* C15: decode_packet_data returns what the reference scanner emits, and raises
\* a format error where the reference scanner does.
C15_DecodeIsReferenceScan ==
    (ret.op = "decode_packet_data")
        => LET r == ReferenceScan(packet, <<>>)
           IN  IF r.err = ""
               THEN ret.status = "ok" /\ ret.value = r.val
               ELSE ret.status \in DecodeFormatErrors

\* decode_packet_data agrees with the reference scanner on every input in which
\* no "}" is followed by a byte over 127
C15_AgreesBelow128 ==
    (ret.op = "decode_packet_data" /\ ret.status # "UnicodeEncodeError")
        => LET r == ReferenceScan(packet, <<>>)
           IN  IF r.err = ""
               THEN ret.status = "ok" /\ ret.value = r.val
               ELSE ret.status \in DecodeFormatErrors

\* an escaped byte over 127 ended the decoding
C15_Witness ==
    /\ ret.op = "decode_packet_data"
    /\ ret.status = "UnicodeEncodeError"
    /\ packet = <<RBRACE, HIGH>>

\* ------------------------------------------------------------ properties of the client, continued
\* c is a custom checksum that is not two hex digits
Malformed(c) ==
    c.given /\ ~(Len(c.val) = 2 /\ \A k \in 1..Len(c.val) : c.val[k] \in HexDigits)

\* C16: send_packet called with a custom checksum that is not two hex digits
\* raises the invalid-argument error, writes nothing, reads nothing and leaves
\* the socket, the session state and the receive buffer as they were, on a
\* connected client as on one without a socket.
C16_MalformedChecksumRejected ==
    [][\A p \in Payloads, c \in Checksums, k \in BOOLEAN :
          (Malformed(c) /\ send_packet(p, c, k))
              => /\ ret'.status = "ValueError_checksum"
                 /\ sent' = <<>>
                 /\ reads' = 0
                 /\ pc' = "idle"
                 /\ time_elapsed' = 0
                 /\ SessionUntouched]_vars

\* the call was refused on a connected client that holds received bytes
C16_Witness ==
    /\ ret.op = "send_packet"
    /\ ret.status = "ValueError_checksum"
    /\ sock_up
    /\ _recv_buf # <<>>
    /\ wire # <<>>
    /\ sent = <<>>

\* ---------------------------------------------------------------- C17
RECURSIVE StopReplyOf(_, _, _)
\* What a stream of well-formed packets holds up to its first packet whose
\* payload does not begin with "O": that payload, the texts of the "O" packets
\* before it one after the other, how many packets that is, and what follows.
StopReplyOf(s, texts, n) ==
    LET h == FirstHash(s)
        payload == decode_packet_data(SubSeq(s, 2, h - 1)).val
        rest == SubSeq(s, h + 3, Len(s))
    IN  IF payload # <<>> /\ payload[1] = O_LETTER
        THEN StopReplyOf(rest, texts \o ascii_from_hex(Tail(payload)).val, n + 1)
        ELSE [reply |-> payload, texts |-> texts, packets |-> n + 1, rest |-> rest]

\* C17: when get_stop_reply returns, it has consumed the packets of the stream in
\* arrival order up to and including the first one whose decoded payload does not
\* begin with "O"; it returns that payload with the hex-decoded texts of the "O"
\* packets before it, concatenated in arrival order; what follows that packet is
\* left unread; and all it has written are the acknowledgements of those packets
\* (nothing at all in no-ack mode), never a command packet.
C17_GetStopReply ==
    (ret.op = "get_stop_reply" /\ ret.status = "ok") =>
        LET r == StopReplyOf(Stream0, <<>>, 0) IN
        /\ ret.value = r.reply
        /\ console_text = r.texts
        /\ Stream1 = r.rest
        /\ sent = [k \in 1..(IF _no_ack_mode THEN 0 ELSE r.packets) |-> <<PLUS>>]

\* get_stop_reply has returned the stop reply "3" after the console texts "$" and "3"
C17_Witness ==
    /\ ret.op = "get_stop_reply"
    /\ ret.status = "ok"
    /\ ret.value = <<DIGIT3>>
    /\ console_text = <<DOLLAR, DIGIT3>>
    /\ sent = <<<<PLUS>>, <<PLUS>>, <<PLUS>>>>

\* ---------------------------------------------------------------- C18
\* the call in progress needs the transport and no time of its timeout is left
OutOfTime == pc # "idle" /\ _recv_timeout - time_elapsed <= 0

\* C18: whenever a receive needs more bytes from the transport and the remaining
\* time of its timeout is less than or equal to 0, exactly 0 included, the call
\* ends with RecvTimeoutError and without another socket.recv.
C18_TimeoutWhenNoTimeLeft ==
    [][(OutOfTime /\ pc' = "idle") =>
           (ret'.status = "RecvTimeoutError" /\ reads' = reads)]_vars

\* with the remaining time below 0 the call does end with RecvTimeoutError and
\* without another socket.recv
C18_TimeoutBelowZero ==
    [][(pc # "idle" /\ _recv_timeout - time_elapsed < 0 /\ pc' = "idle") =>
           (ret'.status = "RecvTimeoutError" /\ reads' = reads)]_vars

\* a receive has ended on the assert of _get_recv_time_left, the remaining time
\* being exactly 0
C18_Witness ==
    /\ ret.status = "AssertionError"
    /\ ret.aux = _recv_timeout
    /\ ret.op \in {"recv_packet", "recv_and_decode_packet_data", "check_ack", "send_packet"}

\* ---------------------------------------------------------------- C19
\* the time since the timeout was armed, after a step of the call in progress
ClockAfter == IF pc' = "idle" THEN ret'.aux ELSE time_elapsed'

\* the longest a socket.recv may block: the timeout minus the time elapsed since
\* it was armed, 1 unit when that is strictly between 0 and 1 unit
ReadBound ==
    LET remaining == _recv_timeout - time_elapsed
    IN  IF 0 < remaining /\ remaining < TicksPerUnit THEN TicksPerUnit ELSE Max(remaining, 0)

\* C19: the timeout is armed once, when recv_packet or check_ack is called, and
\* no read of the call arms it again: the clock of the call starts at 0 and
\* never goes back while the call is in progress, and every socket.recv of the
\* call blocks for at most the timeout minus the time elapsed since the call
\* began, or for at most 1 unit when that remainder is strictly between 0 and
\* 1 unit.
C19_ArmedOncePerCall ==
    [][/\ (pc = "idle" /\ pc' # "idle") => time_elapsed' = 0
       /\ (pc # "idle" /\ pc' # "idle") => time_elapsed' >= time_elapsed
       /\ (pc # "idle" /\ CallMoves) =>
             /\ ClockAfter >= time_elapsed
             /\ ClockAfter - time_elapsed <= ReadBound]_vars

\* a recv_and_decode_packet_data call whose second read, begun less than 1 unit
\* before the deadline, blocked until 1 unit after it began
C19_Witness ==
    /\ ret.op = "recv_and_decode_packet_data"
    /\ ret.status = "RecvTimeoutError"
    /\ reads = 2
    /\ start.wire # wire
    /\ ret.aux > _recv_timeout
    /\ _recv_timeout = DEFALUT_RECV_TIMEOUT

\* ---------------------------------------------------------------- C20
\* C20: every packet recv_packet returns is at most MAX_RECV_PACKET bytes long,
\* from its "$" through its two checksum digits.
C20_ReturnedPacketWithinLimit ==
    (ret.op = "recv_packet" /\ ret.status = "ok") => Len(ret.value) <= MAX_RECV_PACKET

\* what the code does keep to: up to its "#" a returned packet is at most
\* MAX_RECV_PACKET bytes long, so with its checksum at most MAX_RECV_PACKET + 2
C20_BodyWithinLimit ==
    (ret.op = "recv_packet" /\ ret.status = "ok") =>
        /\ FirstHash(ret.value) <= MAX_RECV_PACKET
        /\ Len(ret.value) = FirstHash(ret.value) + 2

\* recv_packet has returned a validated packet of MAX_RECV_PACKET + 2 bytes
C20_Witness ==
    /\ ret.op = "recv_packet"
    /\ ret.arg
    /\ ret.status = "ok"
    /\ Len(ret.value) = MAX_RECV_PACKET + 2

\* ---------------------------------------------------------------- C21
SpecialCharacterErrors ==
    {"PacketFormatError_dollar_in_data", "PacketFormatError_hash_in_data"}

BuiltPackets ==
    {create_packet(a[1], a[2]).val :
        a \in {x \in Payloads \X Checksums : create_packet(x[1], x[2]).err = ""}}

\* C22: a send_packet call on a connected client that has built its packet
\* hands it to socket.send once, whole, and writes nothing else, while it waits
\* for the acknowledgement and however the wait ends ("+", "-", another byte, a
\* timeout): nothing is sent again. A "-" ends the call with the NACK protocol
\* error, any other byte than "+" with the unexpected-byte protocol error.
C22_NoRetransmission ==
    (ret.op = "send_packet" /\ _socket # 0 /\ sock_up /\ ret.status # "ValueError_checksum") =>
        /\ Len(sent) = 1
        /\ sent[1] \in BuiltPackets
        /\ (Ended /\ ret.status \notin ClockFailures /\ ret.arg /\ ~_no_ack_mode) =>
              /\ Stream0 # <<>>
              /\ ret.status = AckStatus(Head(Stream0))

\* send_packet was answered with "-": the packet was written once and the call
\* ended with the NACK protocol error
C22_Witness ==
    /\ ret.op = "send_packet"
    /\ ret.status = "ProtocolError_nack"
    /\ Len(sent) = 1
    /\ sent[1] \in BuiltPackets
    /\ Head(Stream0) = MINUS

\* ---------------------------------------------------------------- C23
\* a step that ends a recv_packet call with a timeout or on the length limit
ScanFails ==
    /\ ret' # ret
    /\ ret'.op \in PacketOps
    /\ ret'.status \in {"RecvTimeoutError", "ProtocolError_excessive"}

\* the bytes the failing call had consumed for its packet: the partial packet at
\* the read that timed out, or the bytes the limit error was raised on
ConsumedPrefix == IF ret'.status = "RecvTimeoutError" THEN packet ELSE ret'.value

\* C23: when recv_packet fails with a timeout or with the oversized-packet error,
\* the bytes it had consumed for the partial packet are not put back: the
\* buffer and the transport then hold what the call started from without that
\* prefix, in order, so a following recv_packet begins at the byte after it.
C23_PartialPacketNotRestored ==
    [][ScanFails =>
          /\ ConsumedPrefix \o _recv_buf' \o wire' = start'.buf \o start'.wire
          /\ (ret'.status = "ProtocolError_excessive") =>
                Len(ConsumedPrefix) = MAX_RECV_PACKET + 1
          /\ recv_packet_run("start", _recv_buf' \o wire', <<>>)
                = recv_packet_run("start",
                                  PyFrom(start'.buf \o start'.wire, Len(ConsumedPrefix)),
                                  <<>>)]_vars

\* recv_packet timed out after it had consumed "$" and more of a packet: the
\* stream left begins after those bytes
C23_Witness ==
    /\ ret.op = "recv_packet"
    /\ ret.status = "RecvTimeoutError"
    /\ Stream0 # <<>>
    /\ Head(Stream0) = DOLLAR
    /\ Len(Stream1) + 2 <= Len(Stream0)
    /\ Stream1 # <<>>
    /\ Head(Stream1) # DOLLAR

\* ---------------------------------------------------------------- C24
\* check_ack has just failed on a byte that is neither "+" nor "-"
UnexpectedAck == ret.op = "check_ack" /\ ret.status = "ProtocolError_unexpected_ack"

\* C24: when check_ack reads a byte that is neither "+" nor "-", it puts the
\* byte back at the front of the receive buffer, which is then as it was before
\* the byte was consumed; the receiving call that follows starts from that
\* buffer and reads the same byte first (check_ack fails on it again,
\* recv_packet takes it for the start of its packet only if it is "$"); and a
\* recv_packet that starts on such a buffer with a complete valid packet
\* ahead returns that packet intact.
C24_UnexpectedByteStaysFirst ==
    [][/\ UnexpectedAck' =>
             /\ ret'.value \notin {<<PLUS>>, <<MINUS>>}
             /\ _recv_buf' # <<>>
             /\ <<Head(_recv_buf')>> = ret'.value
             /\ _recv_buf' \o wire' = start'.buf \o start'.wire
       /\ (UnexpectedAck /\ ret' # ret /\ ret'.op \in RecvOps) =>
             /\ start'.buf = _recv_buf
             /\ start'.wire = wire
             /\ (ret'.op = "check_ack") => (UnexpectedAck' /\ ret'.value = ret.value)
             /\ (ret'.op \in PacketOps) =>
                   IF ret.value = <<DOLLAR>>
                   THEN ret'.status # "ProtocolError_start"
                   ELSE ret'.status = "ProtocolError_start" /\ ret'.value = ret.value
       /\ (/\ ret'.op = "recv_packet"
           /\ start'.buf # <<>>
           /\ ValidLead(start'.buf \o start'.wire)) =>
             /\ ret'.status \in {"pending", "ok"} \cup ClockFailures
             /\ (ret'.status = "ok") =>
                   /\ ret'.value = LeadingFrame(start'.buf \o start'.wire)
                   /\ _recv_buf' \o wire' = AfterFrame(start'.buf \o start'.wire)]_vars

\* check_ack has failed on the "$" of a valid packet that came without an ACK,
\* with more of the packet already in the buffer
C24_Witness ==
    /\ UnexpectedAck
    /\ ret.value = <<DOLLAR>>
    /\ ValidLead(Stream1)
    /\ Len(_recv_buf) >= 2
    /\ start.buf = <<>>

\* ---------------------------------------------------------------- C25
\* connect has just failed in socket.connect
ConnectFailed == ret.op = "connect" /\ ret.status = "OSError"

\* C25: when the connection attempt inside connect fails, the client stays
\* without a socket: the call that follows is not rejected as 'already
\* connected' if it is a connect, and fails as 'not connected' if it sends or
\* receives.
C25_FailedConnectStaysDisconnected ==
    [][/\ ConnectFailed' => _socket' = 0
       /\ (ConnectFailed /\ ret' # ret) =>
             /\ (ret'.op = "connect") => ret'.status # "RuntimeError_already_connected"
             /\ (ret'.op \in RecvOps) => ret'.status = "RuntimeError_not_connected_recv"
             /\ (ret'.op \in SendOps \ {"send_packet"}) =>
                   ret'.status = "RuntimeError_not_connected_send"
             /\ (ret'.op = "send_packet") =>
                   ret'.status \in {"RuntimeError_not_connected_send", "ValueError_checksum"}]_vars

\* after a failed connection attempt the client holds the socket object, and
\* the connect that followed was rejected as 'already connected'
C25_Witness ==
    /\ ret.op = "connect"
    /\ ret.status = "RuntimeError_already_connected"
    /\ _socket # 0
    /\ ~sock_up
    /\ nsock = 1

\* ---------------------------------------------------------------- C26
\* C26: recv_and_decode_packet_data acknowledges before it decodes. When it
\* fails with a format error of decode_packet_data, the packet it received was
\* framed and carried the checksum of its payload, its bytes are consumed from
\* the stream, and in ACK-enabled mode the ACK "+" has been written (nothing in
\* no-ack mode); and a call that has consumed such a packet from a live
\* connection fails with that format error.
C26_AckBeforeDecode ==
    (ret.op = "recv_and_decode_packet_data" /\ Ended) =>
        LET d == decode_packet_data(LeadingPayload(Stream0)) IN
        /\ (ret.status \in DecodeFormatErrors) =>
              /\ ValidLead(Stream0)
              /\ ret.status = d.err
              /\ Stream1 = AfterFrame(Stream0)
              /\ sent = IF _no_ack_mode THEN <<>> ELSE <<<<PLUS>>>>
        /\ (ValidLead(Stream0) /\ Stream1 = AfterFrame(Stream0) /\ d.err # "") =>
              ret.status = d.err

\* in ACK-enabled mode the call has failed on a payload that ends in the escape
\* marker, after the "+" was written
C26_Witness ==
    /\ ret.op = "recv_and_decode_packet_data"
    /\ ret.status = "PacketFormatError_escape_missing"
    /\ ~_no_ack_mode
    /\ sent = <<<<PLUS>>>>
    /\ LeadingFrame(Stream0) = PacketBadEscape

\* ---------------------------------------------------------------- C27
\* a step that ends a receiving call on a live connection without any byte
\* having been delivered by it
EndsUnfed == pc # "idle" /\ sock_up /\ frame.op \in RecvOps /\ pc' = "idle" /\ wire' = wire

\* a step in which the transport delivers bytes of a stream that has no "#"
\* within the length limit, and the call ends
EndsOverfed ==
    /\ pc # "idle"
    /\ frame.op \in PacketOps
    /\ pc' = "idle"
    /\ wire' # wire
    /\ Oversized(start.buf \o start.wire)

\* every call in progress ends, the clock advancing
C27_Terminates == (pc # "idle") ~> (pc = "idle")

\* C27: every recv_packet and check_ack call on a connected client terminates,
\* the clock advancing; a call that ends when the transport delivers nothing
\* more (its read timed out, or returned zero bytes after the peer closed) ends
\* with the timeout error, and a call fed a stream without "#" beyond the length
\* limit ends with the oversized-packet protocol error.
C27_TerminatesWithTimeoutOrLimit ==
    /\ C27_Terminates
    /\ [][EndsUnfed => ret'.status = "RecvTimeoutError"]_vars
    /\ [][EndsOverfed => ret'.status = "ProtocolError_excessive"]_vars

\* what holds: the calls terminate, and one that ends unfed ends with the
\* timeout error or, at exactly zero time left, on the assert of
\* _get_recv_time_left
C27_TerminatesWithClockFailureOrLimit ==
    /\ C27_Terminates
    /\ [][EndsUnfed => ret'.status \in ClockFailures]_vars
    /\ [][EndsOverfed => ret'.status = "ProtocolError_excessive"]_vars

\* the peer had closed, the reads of check_ack returned zero bytes, and the call
\* ended on the assert instead of the timeout error
C27_Witness ==
    /\ ret.op = "check_ack"
    /\ ret.status = "AssertionError"
    /\ eof
    /\ sock_up
    /\ Stream0 = <<>>
    /\ reads >= 1

====
